---- MODULE Spec2Model ----
(***************************************************************************)
(* A model of the College Timetable front-end (frontend/src/App.js): the   *)
(* App component's state, the handlers and effects that change it, the     *)
(* requests in flight, the debounce timer, local storage, and the          *)
(* derivations the views compute from the fetched documents.               *)
(*                                                                         *)
(* Strings whose case or substrings matter are sequences of one-character  *)
(* strings, so that toLowerCase, trim, includes, split and Number are      *)
(* computed and not assumed.  JSON documents are records; a field the      *)
(* document lacks is a field the record lacks.                             *)
(***************************************************************************)
EXTENDS Integers, Sequences, FiniteSets, TLC

(***************************************************************************)
(* Bounds of the model.                                                    *)
(***************************************************************************)
\* requests that may be in flight at once
MaxInflight == 2
\* length of a drawn group dataset (derivation specifications)
MaxEntries == 3
\* granularity of the model's clock, in milliseconds
TickMs == 150
\* keystrokes and search starts counted per burst
MaxBurst == 2
\* presses of "Refresh Current Data" counted
MaxRefresh == 2

\* setTimeout(..., 300)
DEBOUNCE_MS == 300

(***************************************************************************)
(* String primitives of the JavaScript runtime.                            *)
(***************************************************************************)
UpperChars == <<"A","B","C","D","E","F","G","H","I","J","K","L","M",
                "N","O","P","Q","R","S","T","U","V","W","X","Y","Z">>
LowerChars == <<"a","b","c","d","e","f","g","h","i","j","k","l","m",
                "n","o","p","q","r","s","t","u","v","w","x","y","z">>
DigitChars == <<"0","1","2","3","4","5","6","7","8","9">>

\* the lower-case letter of each upper-case letter
LowerOf == [c \in {UpperChars[i] : i \in 1..Len(UpperChars)} |->
              LowerChars[CHOOSE i \in 1..Len(UpperChars) : UpperChars[i] = c]]

LowerChar(c) == IF c \in DOMAIN LowerOf THEN LowerOf[c] ELSE c

\* String.prototype.toLowerCase
toLowerCase(s) == [i \in 1..Len(s) |-> LowerChar(s[i])]

IsSpace(c) == c = " "

\* String.prototype.trim
RECURSIVE trimStart(_)
trimStart(s) ==
  IF s # <<>> /\ IsSpace(Head(s)) THEN trimStart(Tail(s)) ELSE s

RECURSIVE trimEnd(_)
trimEnd(s) ==
  IF s # <<>> /\ IsSpace(s[Len(s)]) THEN trimEnd(SubSeq(s, 1, Len(s) - 1)) ELSE s

trim(s) == trimEnd(trimStart(s))

\* String.prototype.includes
includes(field, query) ==
  \E i \in 1..(Len(field) - Len(query) + 1) :
     SubSeq(field, i, i + Len(query) - 1) = query

\* Number(str) for a string of decimal digits ("" gives 0)
DigitOf == [c \in {DigitChars[i] : i \in 1..Len(DigitChars)} |->
              (CHOOSE i \in 1..Len(DigitChars) : DigitChars[i] = c) - 1]
DigitValue(c) == DigitOf[c]

RECURSIVE Number(_)
Number(s) ==
  IF s = <<>> THEN 0
  ELSE 10 * Number(SubSeq(s, 1, Len(s) - 1)) + DigitValue(s[Len(s)])

\* str.split(":"), first two parts, for a string holding one ":"
ColonAt(s) == CHOOSE i \in 1..Len(s) : s[i] = ":" /\ \A j \in 1..(i-1) : s[j] # ":"
splitColon(s) == << SubSeq(s, 1, ColonAt(s) - 1), SubSeq(s, ColonAt(s) + 1, Len(s)) >>

\* const [h, m] = t.split(":").map(Number); h * 60 + m
MinutesOf(t) == Number(splitColon(t)[1]) * 60 + Number(splitColon(t)[2])

\* a.localeCompare(b) <= 0 on strings of digits and ":": the collation puts
\* punctuation before the digits, and the digits in their numeric order
CharRank(c) ==
  IF c = ":" THEN 0 ELSE DigitValue(c) + 1

RECURSIVE localeCompareLeq(_, _)
localeCompareLeq(a, b) ==
  IF a = <<>> THEN TRUE
  ELSE IF b = <<>> THEN FALSE
  ELSE IF CharRank(Head(a)) < CharRank(Head(b)) THEN TRUE
  ELSE IF CharRank(Head(a)) > CharRank(Head(b)) THEN FALSE
  ELSE localeCompareLeq(Tail(a), Tail(b))

\* a conversion that writes the flag as "1" or "0"
BoolToString_Digit(b) == IF b THEN <<"1">> ELSE <<"0">>

\* String(boolean), as localStorage.setItem applies it to its value
BoolToString(b) == IF b THEN <<"t","r","u","e">> ELSE <<"f","a","l","s","e">>

(***************************************************************************)
(* The strings of the data.                                                *)
(***************************************************************************)
Monday    == <<"M","o","n","d","a","y">>
mondayLc  == <<"m","o","n","d","a","y">>
Tuesday   == <<"T","u","e","s","d","a","y">>
Saturday  == <<"S","a","t","u","r","d","a","y">>
Sunday    == <<"S","u","n","d","a","y">>
Wednesday == <<"W","e","d","n","e","s","d","a","y">>
Thursday  == <<"T","h","u","r","s","d","a","y">>
Friday    == <<"F","r","i","d","a","y">>
Room204   == <<"R","o","o","m"," ","2","0","4">>
Room205   == <<"R","o","o","m"," ","2","0","5">>
LabB      == <<"L","a","b"," ","B">>
T0900     == <<"0","9",":","0","0">>
T1000     == <<"1","0",":","0","0">>
T1030     == <<"1","0",":","3","0">>
T1100     == <<"1","1",":","0","0">>
T1200     == <<"1","2",":","0","0">>
T1400     == <<"1","4",":","0","0">>
T1500     == <<"1","5",":","0","0">>
GroupA    == <<"A">>
GroupB    == <<"B">>

\* ScheduleEntry, as the JSON files hold it
Entry(day, start, end, dur, room, cname, ccode, instr) ==
  [ day        |-> day,
    time_slot  |-> [start_time |-> start, end_time |-> end, duration_minutes |-> dur],
    room       |-> room,
    entry_type |-> "lecture",
    course     |-> [course_name |-> cname, course_code |-> ccode,
                    instructor |-> instr, credits |-> 4] ]

Math    == <<"M","a","t","h">>
Physics == <<"P","h","y","s","i","c","s">>
Art     == <<"A","r","t">>
MA1     == <<"M","A","1">>
PH2     == <<"P","H","2">>
AR3     == <<"A","R","3">>
Rao     == <<"R","a","o">>
Iyer    == <<"I","y","e","r">>

E_Mon09 == Entry(Monday,   T0900, T1030, 90, Room204, Math,    MA1, Rao)
E_mon11 == Entry(mondayLc, T1100, T1200, 60, Room205, Physics, PH2, Iyer)
E_Mon14 == Entry(Monday,   T1400, T1500, 60, LabB,    Art,     AR3, Rao)
E_Tue09 == Entry(Tuesday,  T0900, T1000, 60, Room205, Math,    MA1, Rao)
E_Sat10 == Entry(Saturday, T1000, T1100, 60, Room204, Art,     AR3, Iyer)
E_Mon10 == Entry(Monday,   T1000, T1100, 60, Room205, Physics, PH2, Iyer)
E_Mon09b == Entry(Monday,  T0900, T1000, 60, LabB,    Art,     AR3, Iyer)

(***************************************************************************)
(* JSON documents and HTTP responses.                                      *)
(***************************************************************************)
\* JSON null, and the null of useState(null)
Null == [kind |-> "null"]
\* Array.prototype.find finding nothing
Undefined == [kind |-> "undefined"]
\* a JSON object that holds none of the fields the client reads: {}
EmptyObject == [kind |-> "obj"]
\* the JSON body of an error page: {"error": "Not Found"}
ErrorObject == [kind |-> "obj", error |-> "Not Found"]

GroupDataset(g, es) == [kind |-> "obj", group |-> g, entries |-> es]
AggregateDataset(ds) == [kind |-> "obj", data |-> ds]
CoursesDocument(cs) == [kind |-> "obj", courses |-> cs]

Course(ccode, cname, instr) ==
  [course_code |-> ccode, course_name |-> cname, instructor |-> instr, credits |-> 4]

HasField(doc, f) == f \in DOMAIN doc

\* selectedGroup when no group is selected (null; "" is excluded by `|| null`)
NoGroup == <<>>

\* fetch() rejected: no response at all
NetworkFailure == [net |-> FALSE, ok |-> FALSE, json |-> FALSE, body |-> Null]
\* a response: ok is response.ok (status 2xx), json is whether the body parses
Response(ok, json, body) == [net |-> TRUE, ok |-> ok, json |-> json, body |-> body]

(***************************************************************************)
(* The fetch functions' results: the value each stores on completion.      *)
(***************************************************************************)
\* a filter that compares the day as stored
sameDay_CaseSensitive(entryDay, currentDay) == entryDay = currentDay

\* entry.day.toLowerCase() === currentDay.toLowerCase()
sameDay(entryDay, currentDay) == toLowerCase(entryDay) = toLowerCase(currentDay)

\* groupData.entries.filter(entry => sameDay(entry.day, currentDay))
RECURSIVE filterByDay(_, _)
filterByDay(es, currentDay) ==
  IF es = <<>> THEN <<>>
  ELSE IF sameDay(Head(es).day, currentDay)
       THEN <<Head(es)>> \o filterByDay(Tail(es), currentDay)
       ELSE filterByDay(Tail(es), currentDay)

\* await fetch(...) or await response.json() rejects
FetchThrows(resp) == ~resp.net \/ ~resp.json

\* reading doc.f.filter / for (... of doc.f) throws a TypeError
FieldThrows(doc, f) == doc = Null \/ ~HasField(doc, f)

\* a reset of the loading flag placed inside the try block
LoadingAfter_InsideTry(resp) == FetchThrows(resp)

\* setLoadingToday(false) etc. after the try/catch: the flag once the fetch
\* function has run to its end with response resp
LoadingAfter(resp) == FALSE

\* fetchTodayClasses: the value given to setTodayClasses
FetchTodayResult(resp, currentDay) ==
  IF FetchThrows(resp) \/ FieldThrows(resp.body, "entries")
  THEN <<>>
  ELSE filterByDay(resp.body.entries, currentDay)

\* fetchTimetableData: the value given to setTimetableData
FetchTimetableResult(resp) ==
  IF FetchThrows(resp) THEN Null ELSE resp.body

\* fetchCourses: the value given to setCourses (data.courses || [])
FetchCoursesResult(resp) ==
  IF FetchThrows(resp) \/ resp.body = Null THEN <<>>
  ELSE IF HasField(resp.body, "courses") THEN resp.body.courses
  ELSE <<>>

\* search fields whose room keeps its case
searchFields_RoomCaseKept(entry) ==
  << toLowerCase(entry.course.course_name),
     toLowerCase(entry.course.instructor),
     entry.room,
     toLowerCase(entry.course.course_code) >>

\* the four lowercased search fields of an entry
searchFields(entry) ==
  << toLowerCase(entry.course.course_name),
     toLowerCase(entry.course.instructor),
     toLowerCase(entry.room),
     toLowerCase(entry.course.course_code) >>

\* searchFields.some(field => field.includes(query))
entryMatches(entry, query) ==
  LET fields == searchFields(entry)
  IN  \E k \in 1..Len(fields) : includes(fields[k], query)

\* a push that puts the new result in front
pushed_First(results, g, entry) == <<[group |-> g, entry |-> entry]>> \o results

\* results.push({ group: groupData.group, entry: entry })
pushed(results, g, entry) == Append(results, [group |-> g, entry |-> entry])

\* the inner loop of handleSearch over one group dataset
RECURSIVE searchEntries(_, _, _, _)
searchEntries(results, g, es, query) ==
  IF es = <<>> THEN results
  ELSE IF entryMatches(Head(es), query)
       THEN searchEntries(pushed(results, g, Head(es)), g, Tail(es), query)
       ELSE searchEntries(results, g, Tail(es), query)

\* a group test that lets every dataset pass
groupSkipped_Never(groupData, selGroup) == FALSE

\* a group test that compares the identifiers as written
groupSkipped_CaseSensitive(groupData, selGroup) ==
  selGroup # NoGroup /\ groupData.group # selGroup

\* if (selectedGroup && groupData.group.toLowerCase() !== selectedGroup.toLowerCase()) continue
groupSkipped(groupData, selGroup) ==
  selGroup # NoGroup /\ toLowerCase(groupData.group) # toLowerCase(selGroup)

\* the outer loop of handleSearch over data.data
RECURSIVE searchGroups(_, _, _, _)
searchGroups(results, ds, query, selGroup) ==
  IF ds = <<>> THEN results
  ELSE IF groupSkipped(Head(ds), selGroup)
       THEN searchGroups(results, Tail(ds), query, selGroup)
       ELSE searchGroups(searchEntries(results, Head(ds).group, Head(ds).entries, query),
                         Tail(ds), query, selGroup)

\* a query that is trimmed before it is matched
searchTerm_Trimmed(q) == toLowerCase(trim(q))

\* const query = searchQuery.toLowerCase()
searchTerm(q) == toLowerCase(q)

\* handleSearch: the value given to setSearchResults after the fetch
HandleSearchResult(resp, query, selGroup) ==
  IF FetchThrows(resp) \/ FieldThrows(resp.body, "data")
  THEN <<>>
  ELSE searchGroups(<<>>, resp.body.data, searchTerm(query), selGroup)

\* a predicate that also accepts a class starting in the current minute
startsAfter_Inclusive(classItem, currentTime) ==
  MinutesOf(classItem.time_slot.start_time) >= currentTime

\* the predicate of nextClass's find: startMinutes > currentTime
startsAfter(classItem, currentTime) ==
  MinutesOf(classItem.time_slot.start_time) > currentTime

\* HomePage's nextClass: todayClasses.find(c => startsAfter(c, currentTime))
RECURSIVE nextClassOf(_, _)
nextClassOf(classes, currentTime) ==
  IF classes = <<>> THEN Undefined
  ELSE IF startsAfter(Head(classes), currentTime)
       THEN Head(classes)
       ELSE nextClassOf(Tail(classes), currentTime)

\* a test that takes the class to be over in its end minute
isCurrentClass_EndExclusive(startTime, endTime, currentTime) ==
  currentTime >= MinutesOf(startTime) /\ currentTime < MinutesOf(endTime)

\* a test that takes the class to begin after its start minute
isCurrentClass_StartExclusive(startTime, endTime, currentTime) ==
  currentTime > MinutesOf(startTime) /\ currentTime <= MinutesOf(endTime)

\* isCurrentClass, with the clock's minutes since midnight as third argument
isCurrentClass(startTime, endTime, currentTime) ==
  currentTime >= MinutesOf(startTime) /\ currentTime <= MinutesOf(endTime)

\* TimetablePage's days
days == <<Monday, Tuesday, Wednesday, Thursday, Friday>>

\* a day test that ignores the case of the letters
onDay_IgnoringCase(entryDay, day) == toLowerCase(entryDay) = toLowerCase(day)

\* entry.day === day
onDay(entryDay, day) == entryDay = day

\* timetableData.entries.filter(entry => entry.day === day)
RECURSIVE dayClassesOf(_, _)
dayClassesOf(es, day) ==
  IF es = <<>> THEN <<>>
  ELSE IF onDay(Head(es).day, day)
       THEN <<Head(es)>> \o dayClassesOf(Tail(es), day)
       ELSE dayClassesOf(Tail(es), day)

\* a comparator that puts the later start first
compareStart_Descending(a, b) ==
  localeCompareLeq(b.time_slot.start_time, a.time_slot.start_time)

\* a.time_slot.start_time.localeCompare(b.time_slot.start_time) <= 0
compareStart(a, b) ==
  localeCompareLeq(a.time_slot.start_time, b.time_slot.start_time)

\* Array.prototype.sort with that comparator: a stable sort
RECURSIVE insertByStart(_, _)
insertByStart(x, sorted) ==
  IF sorted = <<>> THEN <<x>>
  ELSE IF compareStart(x, Head(sorted)) THEN <<x>> \o sorted
  ELSE <<Head(sorted)>> \o insertByStart(x, Tail(sorted))

RECURSIVE sortByStart(_)
sortByStart(es) ==
  IF es = <<>> THEN <<>>
  ELSE insertByStart(Head(es), sortByStart(Tail(es)))

\* a render that sorts the dataset's own array
entriesAfterRender_SortedInPlace(es) == sortByStart(es)

\* timetableData.entries once the cards are rendered: filter returns a new
\* array for each day and sort reorders that array, not the dataset's
entriesAfterRender(es) == es

\* one day's card of the weekly view: its title, its count line, its rows
dayCard(es, day) ==
  [ day     |-> day,
    count   |-> Len(dayClassesOf(es, day)),
    classes |-> sortByStart(dayClassesOf(es, day)) ]

(***************************************************************************)
(* The state.                                                              *)
(***************************************************************************)
VARIABLES
  currentPage,       \* useState("home")
  selectedGroup,     \* useState(localStorage.getItem("selectedGroup") || null)
  timetableData,     \* useState(null)
  todayClasses,      \* useState([])
  loading,           \* useState(false): the search's flag
  loadingToday,      \* useState(false)
  loadingTimetable,  \* useState(false)
  loadingCourses,    \* useState(false)
  darkMode,          \* useState(localStorage.getItem("darkMode") === "true")
  searchQuery,       \* useState("")
  searchResults,     \* useState([])
  courses,           \* useState([])
  storage,           \* window.localStorage: key -> string
  timers,            \* pending setTimeout callbacks, each with its closure
  inflight,          \* fetches awaiting their response, oldest first
  files,             \* the static JSON files the server holds
  today,             \* the wall clock's weekday name
  now,               \* the wall clock's minutes since midnight
  visit,             \* history: the search view left / come back to, the page reloaded
  stale,             \* history: per kind, was the last write by a superseded fetch
  burst,             \* history: keystrokes of the current burst, searches it started
  refreshes,         \* history: presses of "Refresh Current Data" since the page loaded
  atMinuteEnd        \* the wall clock stands at the last instant of minute now

vars == << currentPage, selectedGroup, timetableData, todayClasses, loading,
           loadingToday, loadingTimetable, loadingCourses, darkMode, searchQuery,
           searchResults, courses, storage, timers, inflight, files, today, now,
           visit, stale, burst, refreshes, atMinuteEnd >>

\* the group buttons of GroupSelectPage (two of ["A", "B", "C"])
GroupButtons == {GroupA, GroupB}
\* the buttons of Navigation
NavPages == {"home", "timetable", "courses", "search", "admin"}
Kinds == {"today", "timetable", "courses", "search"}

\* a removal that leaves the key in place
removeItem_Kept(st, k) == st

\* localStorage.getItem / setItem / removeItem
getItem(st, k) == IF k \in DOMAIN st THEN st[k] ELSE NoGroup
setItem(st, k, v) == [x \in (DOMAIN st) \cup {k} |-> IF x = k THEN v ELSE st[x]]
removeItem(st, k) == [x \in (DOMAIN st) \ {k} |-> st[x]]
\* the literal of localStorage.getItem("darkMode") === "true"
TrueString == <<"t","r","u","e">>
EmptyStorage == [x \in {} |-> NoGroup]

\* the files of the deployment the application model runs against
DatasetA == GroupDataset(GroupA, <<E_Mon09, E_mon11, E_Tue09>>)
DatasetB == GroupDataset(GroupB, <<E_Mon10>>)
DeployedFiles ==
  [ group     |-> [k \in {<<"a">>, <<"b">>} |-> IF k = <<"a">> THEN DatasetA ELSE DatasetB],
    timetable |-> AggregateDataset(<<DatasetA, DatasetB>>),
    courses   |-> CoursesDocument(<<Course(MA1, Math, Rao)>>) ]

\* what the user types into the search box
QRoom204 == <<"r","o","o","m"," ","2","0","4">>
QRao     == <<"r","a","o">>
Queries  == { <<>>, <<" ">>, QRoom204, QRao }

(***************************************************************************)
(* Requests and responses.                                                 *)
(***************************************************************************)
\* a fetch in flight, with the selectedGroup and searchQuery its closure holds;
\* latest (history): no fetch of this kind was triggered after it
Request(kind, g, q) == [kind |-> kind, group |-> g, query |-> q, latest |-> TRUE]

\* the file a request's URL names
Served(r) ==
  IF r.kind \in {"today", "timetable"} THEN files.group[toLowerCase(r.group)]
  ELSE IF r.kind = "courses" THEN files.courses
  ELSE files.timetable

\* the outcomes of a request
Responses(r) ==
  { NetworkFailure,
    Response(TRUE,  TRUE,  Served(r)),
    Response(TRUE,  FALSE, Null),
    Response(TRUE,  TRUE,  EmptyObject),
    Response(FALSE, FALSE, Null),
    Response(FALSE, TRUE,  EmptyObject),
    Response(FALSE, TRUE,  Served(r)) }

Trigger(infl, started) ==
  [i \in 1..Len(infl) |->
     IF \E j \in 1..Len(started) : started[j].kind = infl[i].kind
     THEN [infl[i] EXCEPT !.latest = FALSE] ELSE infl[i]] \o started

Remove(seq, i) == SubSeq(seq, 1, i - 1) \o SubSeq(seq, i + 1, Len(seq))

(***************************************************************************)
(* What the views render.                                                  *)
(***************************************************************************)
\* TimetablePage: timetableData.entries.filter(...) on a document without entries
TimetablePageThrows(page, isLoading, data) ==
  page = "timetable" /\ ~isLoading /\ data # Null /\ ~HasField(data, "entries")

\* an exception leaves a render: React unmounts the tree, nothing responds
RenderThrows == TimetablePageThrows(currentPage, loadingTimetable, timetableData)

\* timetableData after TimetablePage has rendered with it
RenderWeek(page, isLoading, data) ==
  IF page = "timetable" /\ ~isLoading /\ data # Null /\ HasField(data, "entries")
  THEN [data EXCEPT !.entries = entriesAfterRender(@)]
  ELSE data

\* TimetablePage renders the weekly cards (neither the spinner nor the failure text)
WeekShown ==
  /\ currentPage = "timetable" /\ ~loadingTimetable
  /\ timetableData # Null /\ HasField(timetableData, "entries")

\* TimetablePage: days.map(day => the day's card)
weekCards == [d \in 1..Len(days) |-> dayCard(timetableData.entries, days[d])]

\* HomePage: which body of "Today's Classes" is rendered
HomeView ==
  IF loadingToday THEN "loading"
  ELSE IF Len(todayClasses) > 0 THEN "classes"
  ELSE "noClasses"

\* SearchPage: which of its four bodies is rendered
SearchView ==
  IF loading THEN "searching"
  ELSE IF Len(searchResults) > 0 THEN "results"
  ELSE IF searchQuery # <<>> THEN "noResults"
  ELSE "noQuery"

\* a next class that is the earliest of the classes starting later
nextClass_Earliest ==
  LET later == {k \in 1..Len(todayClasses) : startsAfter(todayClasses[k], now)}
      start(k) == MinutesOf(todayClasses[k].time_slot.start_time)
  IN IF later = {} THEN Undefined
     ELSE todayClasses[CHOOSE k \in later :
                         \A j \in later : start(k) < start(j) \/ (start(k) = start(j) /\ k <= j)]

\* HomePage's nextClass
nextClass == nextClassOf(todayClasses, now)

\* isCurrentClass reads the clock itself, after HomePage's nextClass has read
\* it: in a render begun at the last instant of a minute it reads the next one
ClockAtRows == IF atMinuteEnd THEN (now + 1) % (24 * 60) ELSE now

\* HomePage: isCurrent of the k-th row of today's classes (the "Live" badge)
isCurrent(k) ==
  isCurrentClass(todayClasses[k].time_slot.start_time,
                 todayClasses[k].time_slot.end_time, ClockAtRows)

(***************************************************************************)
(* Effects.                                                                *)
(***************************************************************************)
\* a cleanup that leaves the pending timer running
cleanupTimers_NoClear(ts) == ts

\* the search effect's cleanup: clearTimeout(timeoutId)
cleanupTimers(ts) == {}

\* the search effect, run because searchQuery or currentPage changed
SearchEffectTimers(page, q, g, ts) ==
  IF page # "search" THEN cleanupTimers(ts)
  ELSE cleanupTimers(ts) \cup {[query |-> q, group |-> g, age |-> 0]}

SearchEffectResults(page, results) ==
  IF page # "search" THEN <<>> ELSE results

\* a group selection effect that always opens the home view
pageForGroup_AlwaysHome(g) == "home"

\* the group selection effect: setCurrentPage("groupSelect") or ("home")
pageForGroup(g) == IF g = NoGroup THEN "groupSelect" ELSE "home"

\* a refresh that reloads today's classes from whatever view it is pressed on
handleDataRefresh_AnyView(page, g) ==
  IF g # NoGroup THEN <<Request("today", g, <<>>)>> ELSE <<>>

\* handleDataRefresh: the fetch it starts when called on view page
handleDataRefresh(page, g) ==
  IF page = "home" /\ g # NoGroup THEN <<Request("today", g, <<>>)>>
  ELSE IF page = "timetable" /\ g # NoGroup THEN <<Request("timetable", g, <<>>)>>
  ELSE IF page = "courses" THEN <<Request("courses", NoGroup, <<>>)>>
  ELSE <<>>

\* the fetch a page's mount effect starts
MountFetch(page, g) ==
  IF page = "home" /\ g # NoGroup THEN <<Request("today", g, <<>>)>>
  ELSE IF page = "timetable" /\ g # NoGroup THEN <<Request("timetable", g, <<>>)>>
  ELSE IF page = "courses" THEN <<Request("courses", NoGroup, <<>>)>>
  ELSE <<>>

Starts(started, kind) == \E j \in 1..Len(started) : started[j].kind = kind

\* the history of visits to the search view
VisitAfterNavigate(from, to, v) ==
  IF from = "search" /\ to # "search" THEN "left"
  ELSE IF to = "search" /\ v = "left" THEN "returned"
  ELSE v

\* the history of the current burst of keystrokes
NoBurst == [keys |-> 0, starts |-> 0]
BurstAfterType(b, ts) ==
  [ keys   |-> IF \E t \in ts : t.age < DEBOUNCE_MS
               THEN (IF b.keys < MaxBurst THEN b.keys + 1 ELSE MaxBurst) ELSE 1,
    starts |-> 0 ]
BurstAfterStart(b) ==
  [b EXCEPT !.starts = IF b.starts < MaxBurst THEN b.starts + 1 ELSE MaxBurst]

(***************************************************************************)
(* Construction: the first render and its effects.                         *)
(***************************************************************************)
InitialStorages ==
  { EmptyStorage,
    setItem(EmptyStorage, "selectedGroup", GroupA),
    setItem(setItem(EmptyStorage, "selectedGroup", GroupB), "darkMode", TrueString),
    setItem(EmptyStorage, "darkMode", <<"f","a","l","s","e">>) }

\* the state once App has mounted over local storage st and its effects ran
Mounted(st) ==
  LET g == getItem(st, "selectedGroup")
      d == getItem(st, "darkMode") = TrueString
      started == MountFetch("home", g)
  IN [ selectedGroup    |-> g,
       darkMode         |-> d,
       currentPage      |-> pageForGroup(g),
       storage          |-> setItem(IF g = NoGroup THEN st
                                    ELSE setItem(st, "selectedGroup", g),
                                    "darkMode", BoolToString(d)),
       timetableData    |-> Null,
       todayClasses     |-> <<>>,
       loading          |-> FALSE,
       loadingToday     |-> Starts(started, "today"),
       loadingTimetable |-> FALSE,
       loadingCourses   |-> FALSE,
       searchQuery      |-> <<>>,
       searchResults    |-> <<>>,
       courses          |-> <<>>,
       timers           |-> {},
       inflight         |-> started,
       visit            |-> "none",
       stale            |-> [k \in Kinds |-> FALSE],
       burst            |-> NoBurst,
       refreshes        |-> 0 ]

Construct(st) ==
  LET m == Mounted(st)
  IN /\ selectedGroup = m.selectedGroup
     /\ darkMode = m.darkMode
     /\ currentPage = m.currentPage
     /\ storage = m.storage
     /\ timetableData = m.timetableData
     /\ todayClasses = m.todayClasses
     /\ loading = m.loading
     /\ loadingToday = m.loadingToday
     /\ loadingTimetable = m.loadingTimetable
     /\ loadingCourses = m.loadingCourses
     /\ searchQuery = m.searchQuery
     /\ searchResults = m.searchResults
     /\ courses = m.courses
     /\ timers = m.timers
     /\ inflight = m.inflight
     /\ visit = m.visit
     /\ stale = m.stale
     /\ burst = m.burst
     /\ refreshes = m.refreshes
     /\ atMinuteEnd = FALSE

Init ==
  /\ files = DeployedFiles
  /\ today = Monday
  /\ now = 600
  /\ \E st \in InitialStorages : Construct(st)

(***************************************************************************)
(* The user's actions, each with the renders and effects it causes.        *)
(***************************************************************************)
\* GroupSelectPage: onSelectGroup(group), then the group selection effect
SelectGroup(g) ==
  LET started == MountFetch("home", g) IN
  /\ currentPage = "groupSelect"
  /\ Len(inflight) + Len(started) <= MaxInflight
  /\ selectedGroup' = g
  /\ storage' = setItem(storage, "selectedGroup", g)
  /\ currentPage' = pageForGroup(g)
  /\ inflight' = Trigger(inflight, started)
  /\ loadingToday' = (loadingToday \/ Starts(started, "today"))
  /\ timers' = SearchEffectTimers("home", searchQuery, g, timers)
  /\ searchResults' = SearchEffectResults("home", searchResults)
  /\ visit' = VisitAfterNavigate(currentPage, "home", visit)
  /\ burst' = NoBurst
  /\ UNCHANGED << timetableData, todayClasses, loading, loadingTimetable, loadingCourses,
                  darkMode, searchQuery, courses, files, today, now, atMinuteEnd, stale, refreshes >>

\* Header: onSwitchGroup
SwitchGroup ==
  /\ ~RenderThrows
  /\ currentPage # "groupSelect"
  /\ selectedGroup # NoGroup
  /\ storage' = removeItem(storage, "selectedGroup")
  /\ selectedGroup' = NoGroup
  /\ currentPage' = pageForGroup(NoGroup)
  /\ timers' = SearchEffectTimers("groupSelect", searchQuery, NoGroup, timers)
  /\ searchResults' = SearchEffectResults("groupSelect", searchResults)
  /\ visit' = VisitAfterNavigate(currentPage, "groupSelect", visit)
  /\ burst' = NoBurst
  /\ UNCHANGED << timetableData, todayClasses, loading, loadingToday, loadingTimetable,
                  loadingCourses, darkMode, searchQuery, courses, inflight, files,
                  today, now, atMinuteEnd, stale, refreshes >>

\* Navigation: setCurrentPage(item.id), the page's mount effect, the search effect
Navigate(p) ==
  /\ ~RenderThrows
  /\ currentPage # "groupSelect"
  /\ p # currentPage
  /\ currentPage' = p
  /\ visit' = VisitAfterNavigate(currentPage, p, visit)
  /\ burst' = NoBurst
  /\ IF TimetablePageThrows(p, loadingTimetable, timetableData)
     THEN \* the page's first render throws: no effect of it runs
          /\ timers' = cleanupTimers(timers)
          /\ UNCHANGED << inflight, loadingToday, loadingTimetable, loadingCourses,
                          searchResults >>
     ELSE LET started == MountFetch(p, selectedGroup) IN
          /\ Len(inflight) + Len(started) <= MaxInflight
          /\ inflight' = Trigger(inflight, started)
          /\ loadingToday' = (loadingToday \/ Starts(started, "today"))
          /\ loadingTimetable' = (loadingTimetable \/ Starts(started, "timetable"))
          /\ loadingCourses' = (loadingCourses \/ Starts(started, "courses"))
          /\ timers' = SearchEffectTimers(p, searchQuery, selectedGroup, timers)
          /\ searchResults' = SearchEffectResults(p, searchResults)
  /\ UNCHANGED << selectedGroup, timetableData, todayClasses, loading, darkMode,
                  searchQuery, courses, storage, files, today, now, atMinuteEnd, stale, refreshes >>

\* Header: setDarkMode(!darkMode), then the dark mode effect
ToggleDarkMode ==
  /\ ~RenderThrows
  /\ currentPage # "groupSelect"
  /\ darkMode' = ~darkMode
  /\ storage' = setItem(storage, "darkMode", BoolToString(~darkMode))
  /\ timetableData' = RenderWeek(currentPage, loadingTimetable, timetableData)
  /\ UNCHANGED << currentPage, selectedGroup, todayClasses, loading,
                  loadingToday, loadingTimetable, loadingCourses, searchQuery,
                  searchResults, courses, timers, inflight, files, today, now, atMinuteEnd,
                  visit, stale, burst, refreshes >>

\* SearchPage: onChange -> setSearchQuery(e.target.value), then the search effect
Type(q) ==
  /\ ~RenderThrows
  /\ currentPage = "search"
  /\ q # searchQuery
  /\ searchQuery' = q
  /\ timers' = SearchEffectTimers("search", q, selectedGroup, timers)
  /\ visit' = "typed"
  /\ burst' = BurstAfterType(burst, timers)
  /\ UNCHANGED << currentPage, selectedGroup, timetableData, todayClasses, loading,
                  loadingToday, loadingTimetable, loadingCourses, darkMode,
                  searchResults, courses, storage, inflight, files, today, now, atMinuteEnd, stale,
                  refreshes >>

\* the values of toLocaleDateString("en-US", { weekday: "long" }), in week order
weekdayNames == <<Sunday, Monday, Tuesday, Wednesday, Thursday, Friday, Saturday>>

\* the weekday the wall clock shows after the next midnight
DayAfter(d) ==
  LET k == CHOOSE n \in 1..Len(weekdayNames) : weekdayNames[n] = d
  IN weekdayNames[(k % Len(weekdayNames)) + 1]

\* midnight passes: the wall clock shows the next weekday; no handler of the
\* application runs and nothing is rendered anew
Midnight ==
  /\ today' = DayAfter(today)
  /\ now' = 0
  /\ atMinuteEnd' = FALSE
  /\ UNCHANGED << currentPage, selectedGroup, timetableData, todayClasses, loading,
                  loadingToday, loadingTimetable, loadingCourses, darkMode, searchQuery,
                  searchResults, courses, storage, timers, inflight, files,
                  visit, stale, burst, refreshes >>

\* time passes up to the last instant of the minute: the home view rendered
\* now reads this minute in nextClass and the next one in its rows
ReachMinuteEnd ==
  /\ ~atMinuteEnd
  /\ atMinuteEnd' = TRUE
  /\ UNCHANGED << currentPage, selectedGroup, timetableData, todayClasses, loading,
                  loadingToday, loadingTimetable, loadingCourses, darkMode, searchQuery,
                  searchResults, courses, storage, timers, inflight, files, today, now,
                  visit, stale, burst, refreshes >>

\* AdminPage: onClick={handleDataRefresh} of "Refresh Current Data"
Refresh ==
  LET started == handleDataRefresh(currentPage, selectedGroup) IN
  /\ currentPage = "admin"
  /\ refreshes < MaxRefresh
  /\ Len(inflight) + Len(started) <= MaxInflight
  /\ refreshes' = refreshes + 1
  /\ inflight' = Trigger(inflight, started)
  /\ loadingToday' = (loadingToday \/ Starts(started, "today"))
  /\ loadingTimetable' = (loadingTimetable \/ Starts(started, "timetable"))
  /\ loadingCourses' = (loadingCourses \/ Starts(started, "courses"))
  /\ UNCHANGED << currentPage, selectedGroup, timetableData, todayClasses, loading,
                  darkMode, searchQuery, searchResults, courses, storage, timers,
                  files, today, now, atMinuteEnd, visit, stale, burst >>

\* the browser reloads the page: App mounts anew over the local storage; the
\* fetches and the timer of the old page are gone with it
Reload ==
  LET m == Mounted(storage)
  IN /\ selectedGroup' = m.selectedGroup
     /\ darkMode' = m.darkMode
     /\ currentPage' = m.currentPage
     /\ storage' = m.storage
     /\ timetableData' = m.timetableData
     /\ todayClasses' = m.todayClasses
     /\ loading' = m.loading
     /\ loadingToday' = m.loadingToday
     /\ loadingTimetable' = m.loadingTimetable
     /\ loadingCourses' = m.loadingCourses
     /\ searchQuery' = m.searchQuery
     /\ searchResults' = m.searchResults
     /\ courses' = m.courses
     /\ timers' = m.timers
     /\ inflight' = m.inflight
     /\ visit' = "reloaded"
     /\ stale' = m.stale
     /\ burst' = m.burst
     /\ refreshes' = m.refreshes
     /\ UNCHANGED << files, today, now, atMinuteEnd >>

(***************************************************************************)
(* The environment's actions: time passing, timers firing, responses.      *)
(***************************************************************************)
Min(a, b) == IF a < b THEN a ELSE b

\* TickMs milliseconds pass
Tick ==
  /\ \E t \in timers : t.age < DEBOUNCE_MS
  /\ timers' = { [t EXCEPT !.age = Min(t.age + TickMs, DEBOUNCE_MS)] : t \in timers }
  /\ UNCHANGED << currentPage, selectedGroup, timetableData, todayClasses, loading,
                  loadingToday, loadingTimetable, loadingCourses, darkMode, searchQuery,
                  searchResults, courses, storage, inflight, files, today, now, atMinuteEnd,
                  visit, stale, burst, refreshes >>

\* the debounce callback runs: handleSearch() of its render, or setSearchResults([])
TimerFire(t) ==
  /\ t \in timers
  /\ t.age >= DEBOUNCE_MS
  /\ timers' = timers \ {t}
  /\ IF trim(t.query) # <<>>
     THEN \* handleSearch: setLoading(true), fetch timetable.json
          /\ Len(inflight) < MaxInflight
          /\ loading' = TRUE
          /\ inflight' = Trigger(inflight, <<Request("search", t.group, t.query)>>)
          /\ burst' = BurstAfterStart(burst)
          /\ UNCHANGED searchResults
     ELSE /\ searchResults' = <<>>
          /\ UNCHANGED << loading, inflight, burst >>
  /\ UNCHANGED << currentPage, selectedGroup, timetableData, todayClasses,
                  loadingToday, loadingTimetable, loadingCourses, darkMode, searchQuery,
                  courses, storage, files, today, now, atMinuteEnd, visit, stale, refreshes >>

\* the response of inflight[i] arrives: the rest of its fetch function runs
Respond(i, resp) ==
  LET r == inflight[i] IN
  /\ ~RenderThrows
  /\ inflight' = Remove(inflight, i)
  /\ stale' = [stale EXCEPT ![r.kind] = ~r.latest]
  /\ IF r.kind = "today"
     THEN /\ todayClasses' = FetchTodayResult(resp, today)
          /\ loadingToday' = LoadingAfter(resp)
     ELSE UNCHANGED << todayClasses, loadingToday >>
  /\ IF r.kind = "timetable"
     THEN /\ loadingTimetable' = LoadingAfter(resp)
          /\ timetableData' = RenderWeek(currentPage, LoadingAfter(resp),
                                         FetchTimetableResult(resp))
     ELSE /\ timetableData' = RenderWeek(currentPage, loadingTimetable, timetableData)
          /\ UNCHANGED loadingTimetable
  /\ IF r.kind = "courses"
     THEN /\ courses' = FetchCoursesResult(resp)
          /\ loadingCourses' = LoadingAfter(resp)
     ELSE UNCHANGED << courses, loadingCourses >>
  /\ IF r.kind = "search"
     THEN /\ searchResults' = HandleSearchResult(resp, r.query, r.group)
          /\ loading' = LoadingAfter(resp)
     ELSE UNCHANGED << searchResults, loading >>
  /\ UNCHANGED << currentPage, selectedGroup, darkMode, searchQuery, storage, timers,
                  files, today, now, atMinuteEnd, visit, burst, refreshes >>

\* the response of inflight[i] is the file, served with status 200
Succeed(i) == Respond(i, Response(TRUE, TRUE, Served(inflight[i])))

Next ==
  \/ \E g \in GroupButtons : SelectGroup(g)
  \/ SwitchGroup
  \/ \E p \in NavPages : Navigate(p)
  \/ ToggleDarkMode
  \/ Refresh
  \/ Reload
  \/ Midnight
  \/ ReachMinuteEnd
  \/ \E q \in Queries : Type(q)
  \/ Tick
  \/ \E t \in timers : TimerFire(t)
  \/ \E i \in 1..Len(inflight) : \E resp \in Responses(inflight[i]) : Respond(i, resp)

Spec == Init /\ [][Next]_vars

(***************************************************************************)
(* The application with a user who, once a group is chosen, moves between  *)
(* the Search and Info views only.                                         *)
(***************************************************************************)
NextSearch ==
  \/ \E g \in GroupButtons : SelectGroup(g)
  \/ SwitchGroup
  \/ \E p \in {"search", "admin"} : Navigate(p)
  \/ \E q \in Queries : Type(q)
  \/ Tick
  \/ \E t \in timers : TimerFire(t)
  \/ \E i \in 1..Len(inflight) : \E resp \in Responses(inflight[i]) : Respond(i, resp)

SpecSearch == Init /\ [][NextSearch]_vars

(***************************************************************************)
(* The application with a user who does not open the Search view.          *)
(***************************************************************************)
NextFetch ==
  \/ \E g \in GroupButtons : SelectGroup(g)
  \/ SwitchGroup
  \/ \E p \in NavPages \ {"search"} : Navigate(p)
  \/ \E i \in 1..Len(inflight) : \E resp \in Responses(inflight[i]) : Respond(i, resp)

SpecFetch == Init /\ [][NextFetch]_vars

(***************************************************************************)
(* The application with a user who changes the preferences and reloads the  *)
(* page, between the Today and Info views.                                  *)
(***************************************************************************)
NextPrefs ==
  \/ \E g \in GroupButtons : SelectGroup(g)
  \/ SwitchGroup
  \/ ToggleDarkMode
  \/ Reload
  \/ \E p \in {"home", "admin"} : Navigate(p)
  \/ \E i \in 1..Len(inflight) : Succeed(i)

SpecPrefs == Init /\ [][NextPrefs]_vars

(***************************************************************************)
(* Today's classes and the next class, over drawn group datasets, weekdays *)
(* and times of day: the stored group's dataset is any list of at most     *)
(* MaxEntries entries of EntryPool.                                        *)
(***************************************************************************)
EntryPool == {E_Mon09, E_mon11, E_Mon14, E_Tue09, E_Sat10, E_Mon10}
EntryLists(pool, n) == UNION {[1..k -> pool] : k \in 0..n}
DrawnDays == {Monday, Tuesday, Saturday}
\* 08:59, 09:00, 10:00, 11:00, 15:00
DrawnTimes == {539, 540, 600, 660, 900}

InitToday ==
  /\ \E es \in EntryLists(EntryPool, MaxEntries) :
        files = [DeployedFiles EXCEPT !.group[<<"a">>] = GroupDataset(GroupA, es)]
  /\ today \in DrawnDays
  /\ now \in DrawnTimes
  /\ Construct(setItem(EmptyStorage, "selectedGroup", GroupA))

NextToday ==
  \/ \E p \in {"home", "admin"} : Navigate(p)
  \/ \E i \in 1..Len(inflight) : Succeed(i)

SpecToday == InitToday /\ [][NextToday]_vars

(***************************************************************************)
(* The "Live" badge of the home view, over drawn Monday datasets and the    *)
(* minutes around a 09:00-10:30 class.                                      *)
(***************************************************************************)
LivePool == {E_Mon09, E_mon11, E_Mon10}
\* 08:59, 09:00, 09:45, 10:30, 10:31, 10:59, 11:00, 11:01
DrawnClock == {539, 540, 585, 630, 631, 659, 660, 661}

InitLive ==
  /\ \E es \in EntryLists(LivePool, MaxEntries) :
        files = [DeployedFiles EXCEPT !.group[<<"a">>] = GroupDataset(GroupA, es)]
  /\ today = Monday
  /\ now \in DrawnClock
  /\ Construct(setItem(EmptyStorage, "selectedGroup", GroupA))

SpecLive == InitLive /\ [][NextToday]_vars

(***************************************************************************)
(* The home view rendered within a minute or at the very end of one, over   *)
(* drawn Monday datasets.                                                   *)
(***************************************************************************)
NextRender ==
  \/ \E p \in {"home", "admin"} : Navigate(p)
  \/ \E i \in 1..Len(inflight) : Succeed(i)
  \/ ReachMinuteEnd

SpecRender == InitLive /\ [][NextRender]_vars

(***************************************************************************)
(* The home view left open over midnight, over drawn group datasets; every  *)
(* request is answered with its file.                                       *)
(***************************************************************************)
MidnightPool == {E_Mon09, E_mon11, E_Tue09}

InitMidnight ==
  /\ \E es \in EntryLists(MidnightPool, MaxEntries) :
        files = [DeployedFiles EXCEPT !.group[<<"a">>] = GroupDataset(GroupA, es)]
  /\ today = Monday
  /\ now = 600
  /\ Construct(setItem(EmptyStorage, "selectedGroup", GroupA))

NextMidnight ==
  \/ \E p \in {"home", "admin"} : Navigate(p)
  \/ \E i \in 1..Len(inflight) : Succeed(i)
  \/ Midnight

SpecMidnight == InitMidnight /\ [][NextMidnight]_vars

(***************************************************************************)
(* The weekly view over drawn group datasets, in any entry order.           *)
(***************************************************************************)
WeekPool == {E_Mon14, E_Mon09, E_Mon09b, E_mon11, E_Tue09, E_Sat10}

InitWeek ==
  /\ \E es \in EntryLists(WeekPool, MaxEntries) :
        files = [DeployedFiles EXCEPT !.group[<<"a">>] = GroupDataset(GroupA, es)]
  /\ today = Monday
  /\ now = 600
  /\ Construct(setItem(EmptyStorage, "selectedGroup", GroupA))

NextWeek ==
  \/ \E p \in {"home", "timetable"} : Navigate(p)
  \/ ToggleDarkMode
  \/ \E i \in 1..Len(inflight) : Succeed(i)

SpecWeek == InitWeek /\ [][NextWeek]_vars

(***************************************************************************)
(* The search over drawn aggregate datasets and queries.                   *)
(***************************************************************************)
SearchPool == {E_Mon09, E_mon11, E_Mon14}
QRoom204Space == <<"r","o","o","m"," ","2","0","4"," ">>
QRaoUpper     == <<"R","A","O">>
QMath         == <<"m","a","t","h">>
QCode         == <<"h","2">>
DrawnQueries  == {QRoom204, QRoom204Space, QRaoUpper, QMath, QCode}

InitQuery ==
  /\ \E esA \in EntryLists(SearchPool, MaxEntries - 1) :
        files = [DeployedFiles EXCEPT
                   !.timetable = AggregateDataset(<< GroupDataset(GroupA, esA),
                                                     GroupDataset(GroupB, <<E_Mon09>>) >>)]
  /\ today = Monday
  /\ now = 600
  /\ \E g \in GroupButtons : Construct(setItem(EmptyStorage, "selectedGroup", g))

NextQuery ==
  \/ Navigate("search")
  \/ \E q \in DrawnQueries : Type(q)
  \/ Tick
  \/ \E t \in timers : TimerFire(t)
  \/ \E i \in 1..Len(inflight) : Succeed(i)

SpecQuery == InitQuery /\ [][NextQuery]_vars

(***************************************************************************)
(* The search's group filter and result order, over aggregate documents     *)
(* whose group identifiers are written in either case.                      *)
(***************************************************************************)
groupALc == <<"a">>
FilterPool == {E_Mon09, E_mon11}
FilterQueries == {QRao, QMath}

InitFilter ==
  /\ \E g1 \in {GroupA, groupALc} : \E g2 \in {groupALc, GroupB} :
     \E es1 \in EntryLists(FilterPool, MaxEntries - 1) :
        files = [DeployedFiles EXCEPT
                   !.timetable = AggregateDataset(<< GroupDataset(g1, es1),
                                                     GroupDataset(g2, <<E_Mon14, E_Mon09>>) >>)]
  /\ today = Monday
  /\ now = 600
  /\ \E g \in GroupButtons : Construct(setItem(EmptyStorage, "selectedGroup", g))

NextFilter ==
  \/ Navigate("search")
  \/ \E q \in FilterQueries : Type(q)
  \/ Tick
  \/ \E t \in timers : TimerFire(t)
  \/ \E i \in 1..Len(inflight) : Succeed(i)

SpecFilter == InitFilter /\ [][NextFilter]_vars

(***************************************************************************)
(* The search view with a user who types and then stops, time that passes,  *)
(* a timer that fires when due, and requests that all complete successfully.*)
(***************************************************************************)
ConvergeQueries == {QRoom204, QRao}

InitConverge ==
  /\ files = DeployedFiles
  /\ today = Monday
  /\ now = 600
  /\ Construct(setItem(EmptyStorage, "selectedGroup", GroupA))

NextConverge ==
  \/ Navigate("search")
  \/ \E q \in ConvergeQueries : Type(q)
  \/ Tick
  \/ \E t \in timers : TimerFire(t)
  \/ \E i \in 1..Len(inflight) : Succeed(i)

SpecConverge ==
  /\ InitConverge /\ [][NextConverge]_vars
  /\ WF_vars(Tick)
  /\ WF_vars(\E t \in timers : TimerFire(t))
  /\ WF_vars(\E i \in 1..Len(inflight) : Succeed(i))

(***************************************************************************)
(* The application with group A stored and a user who visits every view     *)
(* and types one query, while each request either fails in transport or is  *)
(* answered with its file.                                                  *)
(***************************************************************************)
Outcomes(r) == {NetworkFailure, Response(TRUE, TRUE, Served(r))}

NextLoading ==
  \/ \E p \in NavPages : Navigate(p)
  \/ Type(QRao)
  \/ Tick
  \/ \E t \in timers : TimerFire(t)
  \/ \E i \in 1..Len(inflight) : \E resp \in Outcomes(inflight[i]) : Respond(i, resp)

SpecLoading == InitConverge /\ [][NextLoading]_vars

(***************************************************************************)
(* The application with a user who selects and switches groups, visits      *)
(* every view and presses Refresh, while every request is answered with its *)
(* file.                                                                    *)
(***************************************************************************)
NextPages ==
  \/ \E g \in GroupButtons : SelectGroup(g)
  \/ SwitchGroup
  \/ \E p \in NavPages : Navigate(p)
  \/ Refresh
  \/ Tick
  \/ \E t \in timers : TimerFire(t)
  \/ \E i \in 1..Len(inflight) : Succeed(i)

SpecPages == Init /\ [][NextPages]_vars

(***************************************************************************)
(* The search with a user who selects and switches groups, over an          *)
(* aggregate document in which both groups hold an entry the query hits.    *)
(***************************************************************************)
InitGroupSearch ==
  /\ files = [DeployedFiles EXCEPT
                 !.timetable = AggregateDataset(<< GroupDataset(GroupA, <<E_Mon09, E_mon11>>),
                                                   GroupDataset(GroupB, <<E_Mon14, E_Mon09>>) >>)]
  /\ today = Monday
  /\ now = 600
  /\ \E st \in InitialStorages : Construct(st)

NextGroupSearch ==
  \/ \E g \in GroupButtons : SelectGroup(g)
  \/ SwitchGroup
  \/ \E p \in {"search", "admin"} : Navigate(p)
  \/ Type(QRao)
  \/ Tick
  \/ \E t \in timers : TimerFire(t)
  \/ \E i \in 1..Len(inflight) : Succeed(i)

SpecGroupSearch == InitGroupSearch /\ [][NextGroupSearch]_vars

(***************************************************************************)
(* The search with queries that begin or end with a space, or hold nothing  *)
(* else, over the deployed files.                                           *)
(***************************************************************************)
QSpace204   == <<" ","2","0","4">>
QBlank      == <<" "," ">>
TrimQueries == {QRoom204Space, QSpace204, QBlank}

NextTrim ==
  \/ Navigate("search")
  \/ \E q \in TrimQueries : Type(q)
  \/ Tick
  \/ \E t \in timers : TimerFire(t)
  \/ \E i \in 1..Len(inflight) : Succeed(i)

SpecTrim == InitConverge /\ [][NextTrim]_vars

(***************************************************************************)
(* Properties.                                                             *)
(***************************************************************************)
InFlight(kind) == \E i \in 1..Len(inflight) : inflight[i].kind = kind
CountOf(infl, kind) == Cardinality({i \in 1..Len(infl) : infl[i].kind = kind})

\* this step starts handleSearch's fetch
SearchStarts == CountOf(inflight', "search") = CountOf(inflight, "search") + 1

\* after this step the state holds the value a failed fetch of the kind leaves
EmptyValueStored(kind) ==
  CASE kind = "today"     -> todayClasses' = <<>>
    [] kind = "timetable" -> timetableData' = Null
    [] kind = "courses"   -> courses' = <<>>
    [] kind = "search"    -> searchResults' = <<>>

\* the field of the document each fetch function reads
ExpectedField(kind) ==
  CASE kind = "today"     -> "entries"
    [] kind = "timetable" -> "entries"
    [] kind = "courses"   -> "courses"
    [] kind = "search"    -> "data"

\* a network failure, a JSON parse failure, or a document missing the field
FailedResponse(kind, resp) ==
  \/ ~resp.net
  \/ ~resp.json
  \/ resp.body = Null
  \/ ~HasField(resp.body, ExpectedField(kind))

\* two strings are equal up to the case of their letters
EqualIgnoringCase(a, b) ==
  /\ Len(a) = Len(b)
  /\ \A n \in 1..Len(a) :
        \/ a[n] = b[n]
        \/ \E k \in 1..Len(UpperChars) : {a[n], b[n]} = {UpperChars[k], LowerChars[k]}

\* q occurs in field at some offset, letters compared up to case
ContainsIgnoringCase(field, q) ==
  \E off \in 0..(Len(field) - Len(q)) :
     \A n \in 1..Len(q) : EqualIgnoringCase(<<field[off + n]>>, <<q[n]>>)

\* out is G restricted to the entries of day d: same entries, same order
ExactlyTheEntriesOfDay(out, G, d) ==
  LET idx == {k \in 1..Len(G) : EqualIgnoringCase(G[k].day, d)} IN
  /\ Len(out) = Cardinality(idx)
  /\ \E f \in [1..Len(out) -> idx] :
        /\ \A j, k \in 1..Len(out) : j < k => f[j] < f[k]
        /\ \A j \in 1..Len(out) : out[j] = G[f[j]]

\* C1: a successful fetchTodayClasses completing on weekday d sets
\* todayClasses to exactly the entries of the group dataset whose day equals d
\* up to case, in the dataset's order, none added, dropped, repeated or moved.
C1_TodayIsExactFilter ==
  [][ \A i \in 1..Len(inflight) :
        (inflight[i].kind = "today" /\ Succeed(i))
          => ExactlyTheEntriesOfDay(todayClasses', Served(inflight[i]).entries, today)
    ]_vars

\* on a Monday a three-entry dataset gave its "Monday" and its "monday" entry
C1_Witness ==
  /\ today = Monday /\ ~loadingToday /\ inflight = <<>>
  /\ Len(files.group[<<"a">>].entries) = 3
  /\ Len(todayClasses) = 2
  /\ todayClasses[1].day = Monday /\ todayClasses[2].day = mondayLc

\* one of the entry's four fields contains q, up to case
FieldHit(e, q) ==
  \E field \in {e.course.course_name, e.course.instructor, e.room, e.course.course_code} :
     ContainsIgnoringCase(field, q)

\* C2: handleSearch's results hold an entry of the aggregate dataset if and
\* only if the query occurs, up to case, in its course name, instructor, room
\* or course code and its group passes the group filter; "room 204" matches
\* room "Room 204" and not room "Room 205".
C2_SearchMatchesFourFields ==
  [][ /\ \A i \in 1..Len(inflight) :
           (inflight[i].kind = "search" /\ Succeed(i))
             => LET q    == inflight[i].query
                    g    == inflight[i].group
                    data == files.timetable.data
                    hit(d, k) == /\ FieldHit(data[d].entries[k], q)
                                 /\ (g = NoGroup \/ EqualIgnoringCase(data[d].group, g))
                    res(d, k) == [group |-> data[d].group, entry |-> data[d].entries[k]]
                IN /\ \A d \in 1..Len(data) : \A k \in 1..Len(data[d].entries) :
                         hit(d, k) <=> \E j \in 1..Len(searchResults') :
                                          searchResults'[j] = res(d, k)
                   /\ \A j \in 1..Len(searchResults') :
                         \E d \in 1..Len(data) : \E k \in 1..Len(data[d].entries) :
                            searchResults'[j] = res(d, k)
      /\ entryMatches(E_Mon09, toLowerCase(QRoom204))
      /\ ~entryMatches(E_mon11, toLowerCase(QRoom204))
    ]_vars

\* "room 204" found the Room 204 entry of group A and left out its Room 205 entry
C2_Witness ==
  /\ currentPage = "search" /\ searchQuery = QRoom204 /\ ~loading
  /\ selectedGroup = GroupA
  /\ files.timetable.data[1].entries = <<E_mon11, E_Mon09>>
  /\ searchResults = <<[group |-> GroupA, entry |-> E_Mon09]>>

\* C3: when the user has left the search view and come back without typing,
\* searchResults is empty (no result of the prior query is shown).
C3_NoStaleResultsOnReturn ==
  visit = "returned" => searchResults = <<>>

\* C4: in every state where currentPage is not "search", searchResults is
\* empty, also when a response of an earlier search arrives after leaving.
C4_ClearedOffSearch ==
  currentPage # "search" => searchResults = <<>>

\* C5: every change of searchQuery or currentPage on the search view leaves
\* exactly one pending timer, freshly started with the new query; handleSearch
\* starts only from a timer that has run its 300 ms since the last change,
\* with the last query value, and at most once per burst of keystrokes.
C5_Debounced ==
  [][ /\ ( (searchQuery' # searchQuery \/ currentPage' # currentPage)
           /\ currentPage' = "search" /\ ~RenderThrows' )
         => timers' = {[query |-> searchQuery', group |-> selectedGroup', age |-> 0]}
      /\ SearchStarts
         => /\ \E t \in timers : t.age >= DEBOUNCE_MS /\ t.query = searchQuery
                                 /\ timers' = timers \ {t}
            /\ inflight'[Len(inflight')].query = searchQuery'
            /\ timers' = {}
      /\ Cardinality(timers') <= 1
      /\ burst'.starts <= 1
    ]_vars

\* a burst of two keystrokes has started exactly one search, for the last value
C5_Witness ==
  /\ burst.keys >= 2 /\ burst.starts = 1
  /\ currentPage = "search"
  /\ \E i \in 1..Len(inflight) :
        inflight[i].kind = "search" /\ inflight[i].query = searchQuery

\* C6: whenever the query is empty or whitespace-only, the search view shows
\* the "no query" body.
C6_BlankQueryIsNoQuery ==
  (currentPage = "search" /\ trim(searchQuery) = <<>>) => SearchView = "noQuery"

\* C7: a fetch that fails by a network failure, a JSON parse failure or a
\* document missing the expected field stores the empty value of its kind, and
\* no render throws.
C7_FailureGivesEmpty ==
  [][ \A i \in 1..Len(inflight) : \A resp \in Responses(inflight[i]) :
        (Respond(i, resp) /\ FailedResponse(inflight[i].kind, resp))
          => (EmptyValueStored(inflight[i].kind) /\ ~RenderThrows')
    ]_vars

\* C8: a non-2xx response, whatever its body, leaves the same empty value as
\* a transport failure.
C8_Non2xxGivesEmpty ==
  [][ \A i \in 1..Len(inflight) : \A resp \in Responses(inflight[i]) :
        (Respond(i, resp) /\ resp.net /\ ~resp.ok)
          => EmptyValueStored(inflight[i].kind)
    ]_vars

\* C9: once no fetch of a kind is in flight, the state of that kind was last
\* written by the most recently triggered fetch of the kind.
C9_LatestFetchWins ==
  \A kind \in Kinds : ~InFlight(kind) => ~stale[kind]

\* minutes since midnight of a zero-padded "HH:MM" string
ClockMinutes(t) ==
  (DigitOf[t[1]] * 10 + DigitOf[t[2]]) * 60 + DigitOf[t[4]] * 10 + DigitOf[t[5]]

StartOf(classItem) == ClockMinutes(classItem.time_slot.start_time)

SortedByStart(classes) ==
  \A j, k \in 1..Len(classes) : j < k => StartOf(classes[j]) <= StartOf(classes[k])

\* C10: for a today's-classes list sorted ascending by start time and a current
\* time t, nextClass is the entry with the smallest start time strictly greater
\* than t, and absent if no entry starts after t.
C10_NextClassIsEarliestLater ==
  SortedByStart(todayClasses) =>
    LET later == {k \in 1..Len(todayClasses) : StartOf(todayClasses[k]) > now} IN
    IF later = {} THEN nextClass = Undefined
    ELSE \E k \in later :
            /\ nextClass = todayClasses[k]
            /\ \A j \in later : StartOf(todayClasses[k]) <= StartOf(todayClasses[j])

\* at 10:00 with classes at 09:00 and 11:00 the next class is the 11:00 one
C10_Witness ==
  /\ now = 600
  /\ todayClasses = <<E_Mon09, E_mon11>>
  /\ nextClass = E_mon11

\* the home view shows the rows of today's classes
TodayRowsShown == currentPage = "home" /\ ~loadingToday

\* C11: a row of today's classes is marked live if and only if the clock's
\* minutes since midnight lie between the row's start and end minutes, both
\* included; a 09:00-10:30 class is live at 09:00, 09:45 and 10:30 and not
\* live at 08:59 and 10:31.
C11_LiveIffWithinInclusive ==
  TodayRowsShown =>
    \A k \in 1..Len(todayClasses) :
       LET slot == todayClasses[k].time_slot IN
       /\ isCurrent(k) <=> ( ClockMinutes(slot.start_time) <= ClockAtRows
                              /\ ClockAtRows <= ClockMinutes(slot.end_time) )
       /\ (slot.start_time = T0900 /\ slot.end_time = T1030)
            => /\ ClockAtRows \in {540, 585, 630} => isCurrent(k)
               /\ ClockAtRows \in {539, 631} => ~isCurrent(k)

\* at 10:30 the 09:00-10:30 row is live and the 11:00 row is not
C11_Witness ==
  /\ TodayRowsShown /\ inflight = <<>>
  /\ now = 630
  /\ todayClasses = <<E_Mon09, E_mon11>>
  /\ isCurrent(1) /\ ~isCurrent(2)

\* how many times x occurs in the list
Occurrences(list, x) == Cardinality({k \in 1..Len(list) : list[k] = x})

\* C12: whatever the order of the dataset's entries, the weekly view shows five
\* cards titled Monday, Tuesday, Wednesday, Thursday, Friday in that order;
\* the rows of each card ascend by start time and the card's count is the
\* number of its rows.
C12_FiveSortedBuckets ==
  WeekShown =>
    /\ Len(weekCards) = 5
    /\ [d \in 1..5 |-> weekCards[d].day]
         = << <<"M","o","n","d","a","y">>, <<"T","u","e","s","d","a","y">>,
              <<"W","e","d","n","e","s","d","a","y">>,
              <<"T","h","u","r","s","d","a","y">>, <<"F","r","i","d","a","y">> >>
    /\ \A d \in 1..5 :
          /\ SortedByStart(weekCards[d].classes)
          /\ weekCards[d].count = Len(weekCards[d].classes)

\* a dataset listing Monday 14:00 before Monday 09:00 shows 09:00 first
C12_Witness ==
  /\ WeekShown
  /\ timetableData.entries = <<E_Mon14, E_Mon09, E_Tue09>>
  /\ weekCards[1].classes = <<E_Mon09, E_Mon14>> /\ weekCards[1].count = 2
  /\ weekCards[2].classes = <<E_Tue09>>

\* C13: an entry is a row of the card of day D exactly when its day field is
\* the string D, letter case included, as often as the dataset lists it;
\* entries of Saturday and of "monday" are rows of no card, while on a Monday
\* the "monday" entries are among today's classes.
C13_BucketIffExactDay ==
  WeekShown =>
    LET es == timetableData.entries IN
    /\ \A d \in 1..Len(weekCards) : \A k \in 1..Len(es) :
          Occurrences(weekCards[d].classes, es[k])
            = IF es[k].day = weekCards[d].day THEN Occurrences(es, es[k]) ELSE 0
    /\ \A d \in 1..Len(weekCards) : \A j \in 1..Len(weekCards[d].classes) :
          \E k \in 1..Len(es) : weekCards[d].classes[j] = es[k]
    /\ \A k \in 1..Len(es) :
          es[k].day \in {Saturday, mondayLc}
            => \A d \in 1..Len(weekCards) : Occurrences(weekCards[d].classes, es[k]) = 0
    /\ (today = Monday /\ ~loadingToday)
          => \A k \in 1..Len(es) :
                es[k].day = mondayLc => Occurrences(todayClasses, es[k]) > 0

\* the "monday" and the Saturday entry are on no card; "monday" is in today's classes
C13_Witness ==
  /\ WeekShown /\ ~loadingToday /\ inflight = <<>>
  /\ timetableData.entries = <<E_mon11, E_Sat10, E_Mon09>>
  /\ todayClasses = <<E_mon11, E_Mon09>>
  /\ weekCards[1].classes = <<E_Mon09>>
  /\ \A d \in 2..5 : weekCards[d].classes = <<>>

\* the positions (dataset, entry) of an aggregate document's entries
PositionsOf(data) ==
  {p \in (1..Len(data)) \X (1..MaxEntries) : p[2] <= Len(data[p[1]].entries)}

\* position p comes no later than position r: dataset order, then entry order
NoLater(p, r) == p[1] < r[1] \/ (p[1] = r[1] /\ p[2] <= r[2])

\* the entry at position p, tagged with the group of its dataset
TaggedAt(data, p) == [group |-> data[p[1]].group, entry |-> data[p[1]].entries[p[2]]]

\* the positions whose entry the query hits and whose group passes filter g
HitsOf(data, q, g) ==
  {p \in PositionsOf(data) :
     /\ FieldHit(data[p[1]].entries[p[2]], q)
     /\ (g = NoGroup \/ EqualIgnoringCase(data[p[1]].group, g))}

\* C14: a search run with a group selected returns results of groups equal to
\* it up to case only, and every matching entry of those groups; run with no
\* group selected, handleSearch returns the matching entries of every group.
C14_GroupFilter ==
  [][ \A i \in 1..Len(inflight) :
        (inflight[i].kind = "search" /\ Succeed(i))
          => LET q    == inflight[i].query
                 g    == inflight[i].group
                 data == files.timetable.data
                 all  == HandleSearchResult(Response(TRUE, TRUE, files.timetable), q, NoGroup)
             IN /\ g # NoGroup
                /\ \A j \in 1..Len(searchResults') :
                      EqualIgnoringCase(searchResults'[j].group, g)
                /\ \A p \in PositionsOf(data) :
                      ( EqualIgnoringCase(data[p[1]].group, g)
                        /\ FieldHit(data[p[1]].entries[p[2]], q) )
                        => Occurrences(searchResults', TaggedAt(data, p)) > 0
                /\ \A p \in PositionsOf(data) :
                      FieldHit(data[p[1]].entries[p[2]], q)
                        <=> Occurrences(all, TaggedAt(data, p)) > 0
    ]_vars

\* group A selected: the results come from the dataset written "a", none from B
C14_Witness ==
  /\ currentPage = "search" /\ ~loading /\ inflight = <<>>
  /\ selectedGroup = GroupA /\ searchQuery = QRao
  /\ files.timetable.data[1].group = groupALc
  /\ files.timetable.data[2].group = GroupB
  /\ files.timetable.data[1].entries = <<E_mon11, E_Mon09>>
  /\ searchResults = <<[group |-> groupALc, entry |-> E_Mon09]>>

\* C15: the results of a search are its hits in the order of the aggregate
\* document, dataset after dataset and entry after entry, each tagged with the
\* group identifier of its own dataset.
C15_ResultsInDatasetOrder ==
  [][ \A i \in 1..Len(inflight) :
        (inflight[i].kind = "search" /\ Succeed(i))
          => LET data == files.timetable.data
                 hits == HitsOf(data, inflight[i].query, inflight[i].group)
                 rank(p) == Cardinality({r \in hits : NoLater(r, p)})
             IN /\ Len(searchResults') = Cardinality(hits)
                /\ \A p \in hits : searchResults'[rank(p)] = TaggedAt(data, p)
    ]_vars

\* "rao" with group A selected: the hit of dataset "A", then the two of dataset "a"
C15_Witness ==
  /\ currentPage = "search" /\ ~loading /\ inflight = <<>>
  /\ selectedGroup = GroupA /\ searchQuery = QRao
  /\ files.timetable.data[1] = GroupDataset(GroupA, <<E_Mon09, E_mon11>>)
  /\ files.timetable.data[2] = GroupDataset(groupALc, <<E_Mon14, E_Mon09>>)
  /\ searchResults = << [group |-> GroupA,   entry |-> E_Mon09],
                        [group |-> groupALc, entry |-> E_Mon14],
                        [group |-> groupALc, entry |-> E_Mon09] >>

\* C16: local storage holds no key but selectedGroup and darkMode; darkMode
\* is "true" or "false" as the darkMode state is; selectedGroup is the selected
\* group, and is absent when no group is selected.
C16_StorageMirrorsPreferences ==
  /\ DOMAIN storage \subseteq {"selectedGroup", "darkMode"}
  /\ "darkMode" \in DOMAIN storage
  /\ storage["darkMode"] = (IF darkMode THEN <<"t","r","u","e">>
                                          ELSE <<"f","a","l","s","e">>)
  /\ selectedGroup # NoGroup
       => ("selectedGroup" \in DOMAIN storage /\ storage["selectedGroup"] = selectedGroup)
  /\ selectedGroup = NoGroup => "selectedGroup" \notin DOMAIN storage

\* today's classes were fetched in dark mode, then Switch was pressed: only
\* the darkMode key is left
C16_Witness ==
  /\ selectedGroup = NoGroup /\ currentPage = "groupSelect"
  /\ darkMode
  /\ DOMAIN storage = {"darkMode"}
  /\ todayClasses # <<>>

\* C17: a reload keeps selectedGroup and darkMode, and opens the home view
\* when a group is selected and the group-selection view when none is.
C17_PreferencesSurviveReload ==
  [][ Reload =>
        /\ selectedGroup' = selectedGroup
        /\ darkMode' = darkMode
        /\ currentPage' = (IF selectedGroup = NoGroup THEN "groupSelect" ELSE "home")
    ]_vars

\* reloaded on the Info view in dark mode with group A: back on the home view,
\* still dark, still group A, fetching today's classes anew
C17_Witness ==
  /\ visit = "reloaded"
  /\ selectedGroup = GroupA /\ darkMode /\ currentPage = "home"
  /\ todayClasses = <<>> /\ loadingToday
  /\ Len(inflight) = 1 /\ inflight[1].latest

\* the loading flag of a kind of fetch
LoadingFlag(kind) ==
  CASE kind = "today"     -> loadingToday
    [] kind = "timetable" -> loadingTimetable
    [] kind = "courses"   -> loadingCourses
    [] kind = "search"    -> loading

\* C18: as long as a request of a kind has not completed, the loading flag of
\* that kind is true, whatever else has happened since it was sent.
C18_HungKeepsLoading ==
  \A kind \in Kinds : InFlight(kind) => LoadingFlag(kind)

\* the hits of q under group filter g, in the aggregate document's order
MatchesOf(q, g) ==
  LET data == files.timetable.data
      hits == HitsOf(data, q, g)
      rank(p) == Cardinality({r \in hits : NoLater(r, p)})
  IN [j \in 1..Cardinality(hits) |-> TaggedAt(data, CHOOSE p \in hits : rank(p) = j)]

\* C19: if from some time on the user stays on the search view with the
\* non-blank query q, then from some time on searchResults is the list of the
\* matches of q, in whatever order the responses of the searches arrive.
C19_SearchConverges ==
  \A q \in ConvergeQueries :
     <>[](currentPage = "search" /\ searchQuery = q)
       => <>[](searchResults = MatchesOf(q, selectedGroup))

\* C20: whatever the order of today's classes, nextClass is the first entry
\* in list order that starts strictly after the current minute, and absent when
\* no entry does; on a list not ordered by time it need not be the nearest.
C20_NextClassIsFirstLaterInListOrder ==
  LET later == {k \in 1..Len(todayClasses) : StartOf(todayClasses[k]) > now} IN
  IF later = {} THEN nextClass = Undefined
  ELSE \E k \in later :
          /\ nextClass = todayClasses[k]
          /\ \A j \in later : k <= j

\* at 08:59 the list 14:00, 09:00 gives the 14:00 class, not the nearer 09:00 one
C20_Witness ==
  /\ now = 539 /\ currentPage = "home" /\ ~loadingToday
  /\ todayClasses = <<E_Mon14, E_Mon09>>
  /\ nextClass = E_Mon14

\* C21: when no request of a kind is in flight, the loading flag of the kind
\* is false, whether its requests succeeded or failed.
C21_IdleMeansNotLoading ==
  \A kind \in Kinds : ~InFlight(kind) => ~LoadingFlag(kind)

\* the courses request failed: the Courses view is open, empty, and not loading
C21_Witness ==
  /\ currentPage = "courses" /\ inflight = <<>>
  /\ courses = <<>> /\ ~loadingCourses

C23_TodayFollowsWallClock ==
  (currentPage = "home" /\ selectedGroup # NoGroup /\ ~InFlight("today"))
    => ExactlyTheEntriesOfDay(todayClasses,
                              files.group[toLowerCase(selectedGroup)].entries, today)

\* C24: the group-selection view is shown exactly when no group is selected;
\* selecting a group opens the home view, Switch clears the group and opens
\* the group-selection view, and that view is left only by selecting a group.
C24_GroupSelectIffNoGroup ==
  /\ []( (currentPage = "groupSelect") <=> (selectedGroup = NoGroup) )
  /\ [][ /\ (selectedGroup' # selectedGroup /\ selectedGroup' # NoGroup)
              => currentPage' = "home"
         /\ (selectedGroup # NoGroup /\ selectedGroup' = NoGroup)
              => currentPage' = "groupSelect"
         /\ (currentPage = "groupSelect" /\ currentPage' # "groupSelect")
              => selectedGroup' # NoGroup
       ]_vars

\* Switch was pressed after the weekly timetable had been loaded
C24_Witness ==
  /\ currentPage = "groupSelect" /\ selectedGroup = NoGroup
  /\ timetableData # Null
  /\ "selectedGroup" \notin DOMAIN storage

\* C25: while one or more requests of a kind are pending the kind's loading
\* flag is true, so the home view shows its spinner while a today's request
\* is pending and the search view shows its spinner while a search is pending.
C25_LoadingWhileAnyPending ==
  /\ \A kind \in Kinds : CountOf(inflight, kind) >= 1 => LoadingFlag(kind)
  /\ (currentPage = "home" /\ CountOf(inflight, "today") >= 1) => HomeView = "loading"
  /\ (currentPage = "search" /\ CountOf(inflight, "search") >= 1)
       => SearchView = "searching"

\* C26: handleDataRefresh starts a fetch on the home, timetable and courses
\* views only; every press of "Refresh Current Data", a button of the Info
\* view, starts no fetch and leaves the fetched data, the search results and
\* the four loading flags as they were.
C26_RefreshOnInfoDoesNothing ==
  [][ Refresh =>
        /\ \A p \in NavPages \cup {"groupSelect"} :
              handleDataRefresh(p, selectedGroup) # <<>>
                <=> (p = "courses" \/ (p \in {"home", "timetable"} /\ selectedGroup # NoGroup))
        /\ currentPage = "admin"
        /\ inflight' = inflight
        /\ UNCHANGED << todayClasses, timetableData, courses, searchResults,
                        loading, loadingToday, loadingTimetable, loadingCourses >>
    ]_vars

\* Refresh was pressed twice on the Info view after today's classes had loaded
C26_Witness ==
  /\ refreshes = 2 /\ currentPage = "admin"
  /\ inflight = <<>> /\ ~loadingToday
  /\ todayClasses # <<>>

C28_MatchUsesUntrimmedQuery ==
  [][ /\ \A t \in timers :
            TimerFire(t) => (SearchStarts <=> \E n \in 1..Len(t.query) : t.query[n] # " ")
      /\ \A i \in 1..Len(inflight) :
            (inflight[i].kind = "search" /\ Succeed(i))
              => LET q == inflight[i].query IN
                 /\ searchResults' = MatchesOf(q, inflight[i].group)
                 /\ q = QRoom204Space => searchResults' = <<>>
                 /\ q = QSpace204
                      => searchResults' = <<[group |-> GroupA, entry |-> E_Mon09]>>
    ]_vars

\* the search for "room 204 " has run and found nothing, Room 204 being served
C28_Witness ==
  /\ currentPage = "search" /\ searchQuery = QRoom204Space
  /\ burst.starts = 1 /\ inflight = <<>> /\ ~loading
  /\ files.timetable.data[1].entries[1].room = Room204
  /\ searchResults = <<>>

\* C29: whenever the home view shows the rows of today's classes, no row is
\* at once the entry of the Next Class card and marked live.
C29_NeverNextAndLive ==
  TodayRowsShown =>
    \A k \in 1..Len(todayClasses) :
       (nextClass # Undefined /\ todayClasses[k] = nextClass) => ~isCurrent(k)

\* out holds exactly the entries of G whose day is the string d, each as often
\* as G lists it, and those of equal start_time in the order G lists them
StablePermutationOfDay(out, G, d) ==
  LET idx == {k \in 1..Len(G) : G[k].day = d} IN
  /\ Len(out) = Cardinality(idx)
  /\ \E f \in [1..Len(out) -> idx] :
        /\ \A j, k \in 1..Len(out) : j # k => f[j] # f[k]
        /\ \A j \in 1..Len(out) : out[j] = G[f[j]]
        /\ \A j, k \in 1..Len(out) :
              (j < k /\ out[j].time_slot.start_time = out[k].time_slot.start_time)
                => f[j] < f[k]

\* C30: however often the weekly view has been rendered, timetableData is the
\* document the server sent, its entries in the served order, and the rows of
\* each card are a permutation of the entries of the card's day in which
\* entries of equal start_time keep their dataset order.
C30_RenderLeavesDataset ==
  WeekShown =>
    /\ timetableData = files.group[toLowerCase(selectedGroup)]
    /\ \A d \in 1..Len(weekCards) :
          StablePermutationOfDay(weekCards[d].classes, timetableData.entries,
                                 weekCards[d].day)

\* rendered on arrival and again on the dark-mode toggle: the dataset still
\* lists 14:00 first and the two 09:00 entries in their order, which Monday's
\* card keeps
C30_Witness ==
  /\ WeekShown /\ inflight = <<>> /\ darkMode
  /\ timetableData.entries = <<E_Mon14, E_Mon09b, E_Mon09>>
  /\ weekCards[1].classes = <<E_Mon09b, E_Mon09, E_Mon14>>

====
